---- MODULE Spec2Model ----
(***************************************************************************)
(* Model of testcode.py, the "Linux Static IP + DNS Configurator".         *)
(*                                                                         *)
(* Text is modelled as a sequence of atoms.  Everything the program reads  *)
(* (prompt input, command output, interface and profile names) is a        *)
(* sequence of single characters; a literal of the source text may appear  *)
(* as one multi-character atom.  Splitting, stripping, digit tests and     *)
(* number conversion work on the characters, as the Python code does.      *)
(***************************************************************************)
EXTENDS Integers, Sequences, FiniteSets, TLC

VARIABLES
  pc,            \* position of main(): the statement about to run
  step,          \* index of the next command of the running strategy's command list
  lastIn,        \* raw text returned by the most recent input() call
  lastErr,       \* message printed by the most recent prompt iteration (<<>>: none)
  detected_iface,\* main: detected_iface
  iface,         \* main: iface
  ip,            \* main: ip
  prefix,        \* main: prefix (an integer after int())
  gw,            \* main: gw
  dns_list,      \* main: dns_list
  search_domain, \* main: search_domain (<<>> stands for None)
  backend,       \* main: backend ("unset" before detect_stack has returned)
  nmQuery,       \* outcome of detect_stack's nmcli running-state query
  activeOut,     \* stdout of "nmcli ... connection show --active" as read by apply_nmcli
  allOut,        \* stdout of "nmcli ... connection show" as read by apply_nmcli
  con_name,      \* apply_nmcli: con_name (<<>> stands for None)
  created,       \* apply_nmcli: TRUE when the profile is the fallback static-<iface>
  target,        \* path of the file the running strategy overwrites (<<>>: none yet)
  calls,         \* every external command and file operation issued by a strategy, in order
  bins,          \* host: the executables found on PATH
  netplanDir,    \* host: /etc/netplan exists
  systemdRun,    \* host: /run/systemd/system exists
  resolvLink,    \* host: /etc/resolv.conf is a symbolic link
  files,         \* host: regular files (or link targets), path -> content
  files0,        \* the files as they were when the current run started
  clock,         \* host: wall clock, in ticks of 1/TicksPerSecond second
  runs,          \* number of runs of the script started so far
  printedOk,     \* "[OK] Configuration applied." was printed by the current run
  exitCode       \* process exit status of the current run (-1 while it runs)

vars == <<pc, step, lastIn, lastErr, detected_iface, iface, ip, prefix, gw, dns_list,
          search_domain, backend, nmQuery, activeOut, allOut, con_name, created, target,
          calls, bins, netplanDir, systemdRun, resolvLink, files, files0, clock, runs,
          printedOk, exitCode>>

(***************************************************************************)
(* Bounds of the model.                                                    *)
(***************************************************************************)
MaxRuns == 2          \* runs of the script in one behaviour
MaxClock == 2         \* last clock tick
MaxListing == 2       \* lines in one nmcli listing

(***************************************************************************)
(* Text helpers: Python str methods used by the source.                    *)
(***************************************************************************)
NL == "\n"
Space == {" ", "\t", NL}
Digits == <<"0", "1", "2", "3", "4", "5", "6", "7", "8", "9">>
DigitSet == {Digits[i] : i \in 1..10}
DigitVal(c) == (CHOOSE i \in 1..10 : Digits[i] = c) - 1

RECURSIVE LStrip(_)
LStrip(s) == IF s # <<>> /\ Head(s) \in Space THEN LStrip(Tail(s)) ELSE s

RECURSIVE RStrip(_)
RStrip(s) ==
  IF s # <<>> /\ s[Len(s)] \in Space THEN RStrip(SubSeq(s, 1, Len(s) - 1)) ELSE s

\* str.strip()
Strip(s) == RStrip(LStrip(s))

\* str.split(sep) for a one-character separator: always at least one piece
RECURSIVE Split(_, _)
Split(s, sep) ==
  IF \E i \in 1..Len(s) : s[i] = sep
  THEN LET i == CHOOSE k \in 1..Len(s) : s[k] = sep /\ \A j \in 1..(k - 1) : s[j] # sep
       IN  <<SubSeq(s, 1, i - 1)>> \o Split(SubSeq(s, i + 1, Len(s)), sep)
  ELSE <<s>>

\* str.split(sep, 1): at most one cut, at the first separator
Split1(s, sep) ==
  IF \E i \in 1..Len(s) : s[i] = sep
  THEN LET i == CHOOSE k \in 1..Len(s) : s[k] = sep /\ \A j \in 1..(k - 1) : s[j] # sep
       IN  <<SubSeq(s, 1, i - 1), SubSeq(s, i + 1, Len(s))>>
  ELSE <<s>>

\* sep.join(items)
RECURSIVE Join(_, _)
Join(items, sep) ==
  IF items = <<>> THEN <<>>
  ELSE IF Len(items) = 1 THEN items[1]
  ELSE items[1] \o sep \o Join(Tail(items), sep)

\* str.isdigit(): non-empty and every character a digit
IsDigit(s) == s # <<>> /\ \A i \in 1..Len(s) : s[i] \in DigitSet

\* value of a digit string
RECURSIVE ToInt(_)
ToInt(s) ==
  IF s = <<>> THEN 0 ELSE 10 * ToInt(SubSeq(s, 1, Len(s) - 1)) + DigitVal(s[Len(s)])

\* int(s): an optional sign and digits, anything else raises ValueError
CanInt(s) == IsDigit(s) \/ (s # <<>> /\ s[1] \in {"-", "+"} /\ IsDigit(Tail(s)))
IntOf(s) ==
  IF s[1] = "-" THEN 0 - ToInt(Tail(s))
  ELSE IF s[1] = "+" THEN ToInt(Tail(s))
  ELSE ToInt(s)

\* str(n)
RECURSIVE ToStr(_)
ToStr(n) ==
  IF n < 0 THEN <<"-">> \o ToStr(0 - n)
  ELSE IF n < 10 THEN <<Digits[n + 1]>>
  ELSE ToStr(n \div 10) \o <<Digits[(n % 10) + 1]>>

Upper ==
  <<"A", "B", "C", "D", "E", "F", "G", "H", "I", "J", "K", "L", "M",
    "N", "O", "P", "Q", "R", "S", "T", "U", "V", "W", "X", "Y", "Z">>
LowerOf ==
  <<"a", "b", "c", "d", "e", "f", "g", "h", "i", "j", "k", "l", "m",
    "n", "o", "p", "q", "r", "s", "t", "u", "v", "w", "x", "y", "z">>
LowerChar(c) ==
  IF \E i \in 1..Len(Upper) : Upper[i] = c
  THEN LowerOf[CHOOSE i \in 1..Len(Upper) : Upper[i] = c]
  ELSE c

\* str.lower()
Lower(s) == [i \in 1..Len(s) |-> LowerChar(s[i])]

\* sub in s
Contains(s, sub) ==
  \E i \in 0..(Len(s) - Len(sub)) : SubSeq(s, i + 1, i + Len(sub)) = sub

\* [x for x in seq if keep(x)]
RECURSIVE NonEmpty(_)
NonEmpty(items) ==
  IF items = <<>> THEN <<>>
  ELSE (IF items[1] # <<>> THEN <<items[1]>> ELSE <<>>) \o NonEmpty(Tail(items))

(***************************************************************************)
(* Validators (testcode.py 112-141).  A result is [ok, err].               *)
(***************************************************************************)
Ok == [ok |-> TRUE, err |-> <<>>]
Rej(msg) == [ok |-> FALSE, err |-> msg]

\* the loop over the octets: the first offending octet decides the message
RECURSIVE v_ipv4_parts(_)
v_ipv4_parts(parts) ==
  IF parts = <<>> THEN Ok
  ELSE IF ~IsDigit(parts[1]) THEN Rej(<<"IPv4 octets must be numeric">>)
  ELSE IF ToInt(parts[1]) < 0 \/ ToInt(parts[1]) > 255
       THEN Rej(<<"IPv4 octet out of range (0-255)">>)
  ELSE v_ipv4_parts(Tail(parts))

v_ipv4(s) ==
  LET parts == Split(s, ".")
  IN  IF Len(parts) # 4 THEN Rej(<<"Not an IPv4 address">>) ELSE v_ipv4_parts(parts)

v_prefix(s) ==
  IF ~IsDigit(s) THEN Rej(<<"Prefix must be numeric">>)
  ELSE IF ToInt(s) < 1 \/ ToInt(s) > 32 THEN Rej(<<"Prefix must be between 1 and 32">>)
  ELSE Ok

\* [x.strip() for x in s.split(",") if x.strip()]
DnsItems(s) ==
  LET raw == Split(s, ",")
  IN  NonEmpty([i \in 1..Len(raw) |-> Strip(raw[i])])

RECURSIVE v_dns_items(_)
v_dns_items(items) ==
  IF items = <<>> THEN Ok
  ELSE IF ~v_ipv4(items[1]).ok
       THEN Rej(<<"DNS '">> \o items[1] \o <<"' invalid: ">> \o v_ipv4(items[1]).err)
  ELSE v_dns_items(Tail(items))

v_dns_list(s) ==
  IF DnsItems(s) = <<>> THEN Rej(<<"Provide at least one DNS server">>)
  ELSE v_dns_items(DnsItems(s))

v_none(s) == Ok

Validate(validator, s) ==
  CASE validator = "v_ipv4" -> v_ipv4(s)
    [] validator = "v_prefix" -> v_prefix(s)
    [] validator = "v_dns_list" -> v_dns_list(s)
    [] OTHER -> v_none(s)

\* prompt() without the call of the validator
prompt_unvalidated(line, default, required, validator) ==
  LET s == IF default # <<>> /\ Strip(line) = <<>> THEN default ELSE Strip(line)
  IN  IF required /\ s = <<>>
      THEN [done |-> FALSE, value |-> s, err |-> <<"  - This field is required.">>]
      ELSE [done |-> TRUE, value |-> s, err |-> <<>>]

\* One iteration of prompt()'s loop on the raw line `line` typed by the user
\* (default <<>> stands for None): [done, value, err].
prompt(line, default, required, validator) ==
  LET s == IF default # <<>> /\ Strip(line) = <<>> THEN default ELSE Strip(line)
  IN  IF required /\ s = <<>>
      THEN [done |-> FALSE, value |-> s, err |-> <<"  - This field is required.">>]
      ELSE IF ~Validate(validator, s).ok
      THEN [done |-> FALSE, value |-> s,
            err |-> <<"  - Invalid value: ">> \o Validate(validator, s).err]
      ELSE [done |-> TRUE, value |-> s, err |-> <<>>]

normalize_ip_prefix(a, p) == a \o <<"/">> \o ToStr(p)

(***************************************************************************)
(* Paths, the clock and the file system.                                   *)
(***************************************************************************)
TicksPerSecond == 2   \* clock ticks in one second (ts() has one-second resolution)

P_yml == <<"/etc/netplan/", "01-net", ".yml">>
P_yaml == <<"/etc/netplan/", "50-cloud", ".yaml">>
P_default == <<"/etc/netplan/", "99-static-ip", ".yaml">>
P_resolv == <<"/etc/", "resolv", ".conf">>
NetworkdFile(i) == <<"/etc/systemd/network/", "10-">> \o i \o <<".network">>

\* the netplan paths of the model in the order sorted() gives them
NetplanOrder == <<P_yml, P_yaml, P_default>>

Exists(p) == p \in DOMAIN files

\* netplan_dir.glob("*" + ext)
Glob(ext) == {p \in DOMAIN files : p[1] = "/etc/netplan/" /\ p[Len(p)] = ext}

\* list(glob("*.yaml")) + list(glob("*.yml")), as a set
Ymls == Glob(".yaml") \cup Glob(".yml")

\* sorted(S) for a set of netplan paths
RECURSIVE SortedFrom(_, _)
SortedFrom(S, i) ==
  IF i > Len(NetplanOrder) THEN <<>>
  ELSE (IF NetplanOrder[i] \in S THEN <<NetplanOrder[i]>> ELSE <<>>) \o SortedFrom(S, i + 1)

Sorted(S) == SortedFrom(S, 1)

\* ts(): the clock formatted to the second, "%Y%m%d-%H%M%S"
ts ==
  LET sec == clock \div TicksPerSecond
  IN  <<"20261103-1200">> \o (IF sec < 10 THEN <<"0">> ELSE <<>>) \o ToStr(sec)

\* path.with_suffix(path.suffix + ".bak.<ts>")
BkpPath(p, t) == p \o <<".bak.">> \o t

IsBackupOf(b, p) ==
  Len(b) > Len(p) + 1 /\ SubSeq(b, 1, Len(p)) = p /\ b[Len(p) + 1] = ".bak."

OldContent(p) == <<"# previous content of ">> \o p

WriteFile(fs, p, c) == [q \in DOMAIN fs \cup {p} |-> IF q = p THEN c ELSE fs[q]]

\* backup_file that copies nothing
backup_file_skipped(fs, p) == fs

\* backup_file(path) when the copy succeeds: shutil.copy2 replaces whatever is at bkp
backup_file(fs, p) == IF p \in DOMAIN fs THEN WriteFile(fs, BkpPath(p, ts), fs[p]) ELSE fs

(***************************************************************************)
(* External commands and file operations.  An outcome is what the host     *)
(* answers: the operation could not be carried out at all (OSError), or a  *)
(* command ran and returned rc.  A command of a strategy answers with its  *)
(* return code (the ExternalCommandFailure of the specification is a       *)
(* non-zero return); the query of detect_stack, whose every exception is   *)
(* caught, and the file operations can also fail with OSError.             *)
(***************************************************************************)
\* exit codes of the model: success, an error, death by signal 9
RetCodes == {0, 1, -9}
Outcomes == {[launched |-> TRUE, rc |-> c] : c \in RetCodes}

\* run() that never passes check=True on
run_unchecked(check, o) == IF ~o.launched THEN "OSError" ELSE "none"

\* run(cmd, check): the exception subprocess.run raises, or "none"
run(check, o) ==
  IF ~o.launched THEN "OSError"
  ELSE IF check /\ o.rc # 0 THEN "CalledProcessError"
  ELSE "none"

\* the record of one call in `calls`
Call(op, arg, check, o) ==
  [op |-> op, arg |-> arg, check |-> check, rc |-> o.rc, exc |-> run(check, o)]

OkOutcome == [launched |-> TRUE, rc |-> 0]
FailOutcome == [launched |-> FALSE, rc |-> 0]

\* exit status of the process for sys.exit(c)
ExitStatus(c) == c % 256

(***************************************************************************)
(* Inputs of the model.                                                    *)
(***************************************************************************)
Eth0 == <<"e", "t", "h", "0">>
Wlan0 == <<"w", "l", "a", "n", "0">>
Ip_10_0_0_5 == <<"1", "0", ".", "0", ".", "0", ".", "5">>
Ip_10_0_0_1 == <<"1", "0", ".", "0", ".", "0", ".", "1">>
Ip_8_8_8_8 == <<"8", ".", "8", ".", "8", ".", "8">>
Ip_1_1_1_1 == <<"1", ".", "1", ".", "1", ".", "1">>
Ip_999_1_1_1 == <<"9", "9", "9", ".", "1", ".", "1", ".", "1">>
Ip_1_2_3 == <<"1", ".", "2", ".", "3">>
Ip_a_0_0_1 == <<"a", ".", "0", ".", "0", ".", "1">>

IfaceInputs == {<<>>, Eth0}
\* get_default_iface(): the interface found in the output of ip(8), or None (<<>>)
get_default_iface == {<<>>, Eth0}
IpInputs == {Ip_10_0_0_5, <<" ">> \o Ip_10_0_0_5, Ip_999_1_1_1, Ip_1_2_3, Ip_a_0_0_1, <<>>}
PrefixInputs == {<<>>, <<"1", "6">>, <<"0", "1", "6">>, <<"0">>, <<"3", "3">>, <<"x">>, <<"-", "1">>}
GwInputs == {Ip_10_0_0_1, Ip_999_1_1_1, <<>>}
DnsInputs ==
  { Ip_8_8_8_8,
    Ip_8_8_8_8 \o <<",", " ">> \o Ip_1_1_1_1 \o <<" ", ",">>,
    Ip_8_8_8_8 \o <<",">> \o Ip_999_1_1_1,
    <<" ", ",", " ">>,
    <<>> }
SearchInputs == {<<>>, <<"l", "a", "n">>}

S_running == <<"r", "u", "n", "n", "i", "n", "g">>
QueryOutputs ==
  { S_running \o <<NL>>,
    <<"R", "u", "n", "n", "i", "n", "g", NL>>,
    <<"n", "o", "t", " ">> \o S_running \o <<NL>>,
    <<"u", "n", "k", "n", "o", "w", "n", NL>>,
    <<>> }
\* what "nmcli -t -f RUNNING general" can answer: not started, failed, or printed text
QueryOutcomes ==
  {[launched |-> FALSE, rc |-> 0, out |-> <<>>], [launched |-> TRUE, rc |-> 1, out |-> <<>>]}
    \cup {[launched |-> TRUE, rc |-> 0, out |-> t] : t \in QueryOutputs}
NotRun == [launched |-> FALSE, rc |-> -1, out |-> <<>>]

(***************************************************************************)
(* detect_stack (testcode.py 69-86), q the outcome of the nmcli query.     *)
(***************************************************************************)
which(cmd) == cmd \in bins

NetplanRule == which("netplan") /\ netplanDir /\ Ymls # {}

QueryRuns == ~NetplanRule /\ which("nmcli")

\* detect_stack with the NetworkManager rule tried before the netplan rule
detect_stack_nmcli_first(q) ==
  IF which("nmcli") /\ run(TRUE, q) # "none" THEN "nmcli"
  ELSE IF which("nmcli") /\ Contains(Lower(q.out), S_running) THEN "nmcli"
  ELSE IF NetplanRule THEN "netplan"
  ELSE IF systemdRun /\ which("networkctl") THEN "networkd"
  ELSE "iproute2"

\* detect_stack with a failed query taken as "not running"
detect_stack_fail_closed(q) ==
  IF NetplanRule THEN "netplan"
  ELSE IF which("nmcli") /\ run(TRUE, q) = "none" /\ Contains(Lower(q.out), S_running)
       THEN "nmcli"
  ELSE IF systemdRun /\ which("networkctl") THEN "networkd"
  ELSE "iproute2"

detect_stack(q) ==
  IF NetplanRule THEN "netplan"
  ELSE IF which("nmcli") /\ run(TRUE, q) # "none" THEN "nmcli"
  ELSE IF which("nmcli") /\ Contains(Lower(q.out), S_running) THEN "nmcli"
  ELSE IF systemdRun /\ which("networkctl") THEN "networkd"
  ELSE "iproute2"

(***************************************************************************)
(* main (testcode.py 256-302): prompts, detection, dispatch.               *)
(***************************************************************************)
PromptPcs == {"p_iface", "p_ip", "p_prefix", "p_gw", "p_dns", "p_search"}

hostVars == <<bins, netplanDir, systemdRun, resolvLink, files, files0, clock, runs>>
cfgVars == <<detected_iface, iface, ip, prefix, gw, dns_list, search_domain>>
nmVars == <<activeOut, allOut, con_name, created>>
stratVars == <<step, backend, nmQuery, activeOut, allOut, con_name, created, target, calls>>

\* the process ends with status c
Exit(c, ok) == pc' = "exit" /\ exitCode' = c /\ printedOk' = ok
Running == UNCHANGED <<exitCode, printedOk>>

\* require_root, then get_default_iface() for the prompt's default
RequireRoot ==
  /\ pc = "start"
  /\ \E euid \in {0, 1000} :
       IF euid # 0
       THEN Exit(1, FALSE) /\ UNCHANGED detected_iface
       ELSE \E d \in get_default_iface : detected_iface' = d /\ pc' = "p_iface" /\ Running
  /\ UNCHANGED <<lastIn, lastErr, iface, ip, prefix, gw, dns_list, search_domain>>
  /\ UNCHANGED <<stratVars, hostVars>>

\* iface = prompt(...); if not iface: iface = get_default_iface(); if not iface: exit(2)
PromptIface ==
  /\ pc = "p_iface"
  /\ \E line \in IfaceInputs, again \in get_default_iface :
       LET r == prompt(line, detected_iface, FALSE, "none")
           v == IF r.value = <<>> THEN again ELSE r.value
       IN  /\ lastIn' = line
           /\ lastErr' = r.err
           /\ iface' = v
           /\ IF v = <<>> THEN Exit(2, FALSE) ELSE pc' = "p_ip" /\ Running
  /\ UNCHANGED <<detected_iface, ip, prefix, gw, dns_list, search_domain>>
  /\ UNCHANGED <<stratVars, hostVars>>

PromptIp ==
  /\ pc = "p_ip"
  /\ \E line \in IpInputs :
       LET r == prompt(line, <<>>, TRUE, "v_ipv4")
       IN  /\ lastIn' = line
           /\ lastErr' = r.err
           /\ IF r.done THEN ip' = r.value /\ pc' = "p_prefix" ELSE UNCHANGED <<ip, pc>>
  /\ Running
  /\ UNCHANGED <<detected_iface, iface, prefix, gw, dns_list, search_domain>>
  /\ UNCHANGED <<stratVars, hostVars>>

\* prefix = int(prompt(...)): int() raises ValueError, which nothing catches, on text
\* that is no number
PromptPrefix ==
  /\ pc = "p_prefix"
  /\ \E line \in PrefixInputs :
       LET r == prompt(line, <<"2", "4">>, TRUE, "v_prefix")
       IN  /\ lastIn' = line
           /\ lastErr' = r.err
           /\ IF ~r.done THEN UNCHANGED <<prefix, pc>> /\ Running
              ELSE IF CanInt(r.value) THEN prefix' = IntOf(r.value) /\ pc' = "p_gw" /\ Running
              ELSE UNCHANGED prefix /\ Exit(1, FALSE)
  /\ UNCHANGED <<detected_iface, iface, ip, gw, dns_list, search_domain>>
  /\ UNCHANGED <<stratVars, hostVars>>

PromptGw ==
  /\ pc = "p_gw"
  /\ \E line \in GwInputs :
       LET r == prompt(line, <<>>, TRUE, "v_ipv4")
       IN  /\ lastIn' = line
           /\ lastErr' = r.err
           /\ IF r.done THEN gw' = r.value /\ pc' = "p_dns" ELSE UNCHANGED <<gw, pc>>
  /\ Running
  /\ UNCHANGED <<detected_iface, iface, ip, prefix, dns_list, search_domain>>
  /\ UNCHANGED <<stratVars, hostVars>>

PromptDns ==
  /\ pc = "p_dns"
  /\ \E line \in DnsInputs :
       LET r == prompt(line, <<>>, TRUE, "v_dns_list")
       IN  /\ lastIn' = line
           /\ lastErr' = r.err
           /\ IF r.done THEN dns_list' = DnsItems(r.value) /\ pc' = "p_search"
                        ELSE UNCHANGED <<dns_list, pc>>
  /\ Running
  /\ UNCHANGED <<detected_iface, iface, ip, prefix, gw, search_domain>>
  /\ UNCHANGED <<stratVars, hostVars>>

\* search_domain = prompt(..., default="").strip() or None
PromptSearch ==
  /\ pc = "p_search"
  /\ \E line \in SearchInputs :
       LET r == prompt(line, <<>>, FALSE, "none")
       IN  /\ lastIn' = line
           /\ lastErr' = r.err
           /\ search_domain' = Strip(r.value)
           /\ pc' = "detect"
  /\ Running
  /\ UNCHANGED <<detected_iface, iface, ip, prefix, gw, dns_list>>
  /\ UNCHANGED <<stratVars, hostVars>>

\* input() raises EOFError: nothing catches it, the interpreter exits with status 1
InputEof ==
  /\ pc \in PromptPcs
  /\ Exit(1, FALSE)
  /\ UNCHANGED <<lastIn, lastErr, cfgVars, stratVars, hostVars>>

\* first statement of the strategy main dispatches to
Entry(b) ==
  CASE b = "nmcli" -> "nm_active"
    [] b = "netplan" -> "np_backup"
    [] b = "networkd" -> "nd_mkdir"
    [] OTHER -> "ip_cmds"

\* backend = detect_stack()
DetectStack ==
  /\ pc = "detect"
  /\ \E q \in QueryOutcomes :
       /\ backend' = detect_stack(q)
       /\ nmQuery' = IF QueryRuns THEN q ELSE NotRun
  /\ pc' = "dispatch"
  /\ step' = 1
  /\ Running
  /\ UNCHANGED <<lastIn, lastErr, cfgVars, hostVars>>
  /\ UNCHANGED <<activeOut, allOut, con_name, created, target, calls>>

\* the summary is printed and main enters the strategy of the backend; the query
\* result, a local of detect_stack, is gone
Dispatch ==
  /\ pc = "dispatch"
  /\ pc' = Entry(backend)
  /\ nmQuery' = NotRun
  /\ Running
  /\ UNCHANGED <<lastIn, lastErr, cfgVars, hostVars>>
  /\ UNCHANGED <<step, backend, activeOut, allOut, con_name, created, target, calls>>

(***************************************************************************)
(* What a strategy does when a step raises: main catches only              *)
(* CalledProcessError (exit with its return code); any other exception     *)
(* ends the interpreter with status 1.  Nothing is rolled back.            *)
(***************************************************************************)
Raise(e, rc) == Exit(IF e = "CalledProcessError" THEN ExitStatus(rc) ELSE 1, FALSE)

\* print("[OK] Configuration applied.") and the end of main
Succeed == Exit(0, TRUE)

FileOutcomes == {OkOutcome, FailOutcome}

L(a) == <<a>>
Cmd(argv, check) == [argv |-> argv, check |-> check]

(***************************************************************************)
(* apply_nmcli (testcode.py 143-183).                                      *)
(***************************************************************************)
\* stdout.strip().splitlines()
SplitLines(out) == IF Strip(out) = <<>> THEN <<>> ELSE Split(Strip(out), NL)

\* name, dev = (line.split(":", 1) + [""])[:2]
NameOf(line) == (Split1(line, ":") \o <<<<>>>>)[1]
DevOf(line) == (Split1(line, ":") \o <<<<>>>>)[2]

\* the loop without its break: the last matching line wins
RECURSIVE FindProfile_last(_, _)
FindProfile_last(lines, i) ==
  IF lines = <<>> THEN <<>>
  ELSE IF lines[Len(lines)] # <<>> /\ DevOf(lines[Len(lines)]) = i
       THEN NameOf(lines[Len(lines)])
  ELSE FindProfile_last(SubSeq(lines, 1, Len(lines) - 1), i)

\* the for loop over a listing: the name on the first line whose dev is the interface
RECURSIVE FindProfile(_, _)
FindProfile(lines, i) ==
  IF lines = <<>> THEN <<>>
  ELSE IF lines[1] # <<>> /\ DevOf(lines[1]) = i THEN NameOf(lines[1])
  ELSE FindProfile(Tail(lines), i)

StaticName(i) == <<"static-">> \o i

ShowActiveArgv ==
  <<L("nmcli"), L("-t"), L("-f"), L("NAME,DEVICE"), L("connection"), L("show"), L("--active")>>
ShowAllArgv ==
  <<L("nmcli"), L("-t"), L("-f"), L("NAME,DEVICE"), L("connection"), L("show")>>

Modify(con, key, value) ==
  Cmd(<<L("nmcli"), L("connection"), L("modify"), con, L(key), value>>, TRUE)

\* the commands of lines 166-183 for profile con, in order
NmcliCmds(con, isNew) ==
  (IF isNew
   THEN <<Cmd(<<L("nmcli"), L("connection"), L("add"), L("type"), L("ethernet"),
                L("ifname"), iface, L("con-name"), con>>, TRUE)>>
   ELSE <<>>)
  \o << Modify(con, "ipv4.method", L("manual")),
        Modify(con, "ipv4.addresses", normalize_ip_prefix(ip, prefix)),
        Modify(con, "ipv4.gateway", gw),
        Modify(con, "ipv4.dns", Join(dns_list, L(","))),
        Modify(con, "ipv4.dns-search", search_domain),
        Modify(con, "connection.autoconnect", L("yes")),
        Cmd(<<L("nmcli"), L("connection"), L("down"), con>>, FALSE),
        Cmd(<<L("nmcli"), L("connection"), L("up"), con>>, TRUE) >>

\* lines 144-152: the active listing
NmShowActive(Listings) ==
  /\ pc = "nm_active"
  /\ \E o \in Outcomes, out \in Listings :
       LET e == run(TRUE, o)
           found == FindProfile(SplitLines(out), iface)
       IN  /\ calls' = Append(calls, Call("run", ShowActiveArgv, TRUE, o))
           /\ IF e # "none"
              THEN Raise(e, o.rc) /\ UNCHANGED <<activeOut, con_name>>
              ELSE /\ activeOut' = out
                   /\ con_name' = found
                   /\ pc' = IF found = <<>> THEN "nm_all" ELSE "nm_cmds"
                   /\ Running
  /\ UNCHANGED <<step, backend, nmQuery, allOut, created, target>>
  /\ UNCHANGED <<lastIn, lastErr, cfgVars, hostVars>>

\* lines 154-166: the full listing, then the fallback name
NmShowAll(Listings) ==
  /\ pc = "nm_all"
  /\ \E o \in Outcomes, out \in Listings :
       LET e == run(TRUE, o)
           found == FindProfile(SplitLines(out), iface)
       IN  /\ calls' = Append(calls, Call("run", ShowAllArgv, TRUE, o))
           /\ IF e # "none"
              THEN Raise(e, o.rc) /\ UNCHANGED <<allOut, con_name, created>>
              ELSE /\ allOut' = out
                   /\ con_name' = IF found = <<>> THEN StaticName(iface) ELSE found
                   /\ created' = (found = <<>>)
                   /\ pc' = "nm_cmds"
                   /\ Running
  /\ UNCHANGED <<step, backend, nmQuery, activeOut, target>>
  /\ UNCHANGED <<lastIn, lastErr, cfgVars, hostVars>>

(***************************************************************************)
(* Running a strategy's command list: one command per step; an exception   *)
(* leaves the strategy at once, a tolerated non-zero exit does not.        *)
(***************************************************************************)
RunStep(cmds, after) ==
  \E o \in Outcomes :
    LET c == cmds[step]
        e == run(c.check, o)
    IN  /\ calls' = Append(calls, Call("run", c.argv, c.check, o))
        /\ IF e # "none" THEN Raise(e, o.rc) /\ UNCHANGED <<step, target>>
           ELSE IF step < Len(cmds) THEN step' = step + 1 /\ UNCHANGED <<pc, target>> /\ Running
           ELSE after /\ UNCHANGED step

NmRun ==
  /\ pc = "nm_cmds"
  /\ RunStep(NmcliCmds(con_name, created), Succeed /\ UNCHANGED target)
  /\ UNCHANGED <<backend, nmQuery, nmVars, lastIn, lastErr, cfgVars, hostVars>>

(***************************************************************************)
(* File steps shared by the three strategies that overwrite a file.        *)
(***************************************************************************)
\* backup_file(p): the copy is attempted only when p exists, and may fail
BackupStep(p, next) ==
  \E o \in (IF Exists(p) THEN FileOutcomes ELSE {OkOutcome}) :
    /\ calls' = Append(calls, Call("backup_file", <<p>>, TRUE, o))
    /\ target' = p
    /\ IF run(TRUE, o) = "none"
       THEN files' = backup_file(files, p) /\ pc' = next /\ Running
       ELSE UNCHANGED files /\ Raise("OSError", 0)

\* p.write_text(content): on failure the file is untouched or left truncated
WriteStep(p, content, after) ==
  \E o \in FileOutcomes :
    /\ calls' = Append(calls, Call("write_text", <<p>>, TRUE, o))
    /\ IF run(TRUE, o) = "none"
       THEN files' = WriteFile(files, p, content) /\ after
       ELSE /\ \/ UNCHANGED files
               \/ files' = WriteFile(files, p, <<>>)
            /\ Raise("OSError", 0)

fileFrame == <<bins, netplanDir, systemdRun, resolvLink, files0, clock, runs>>

(***************************************************************************)
(* apply_netplan (testcode.py 209-238).                                    *)
(***************************************************************************)
NetplanTarget == IF Sorted(Ymls) # <<>> THEN Sorted(Ymls)[1] ELSE P_default

NetplanContent ==
  <<"network:\n  version: 2\n  ethernets:\n    ">> \o iface
  \o <<":\n      dhcp4: no\n      addresses:\n        - ">> \o normalize_ip_prefix(ip, prefix)
  \o <<"\n      routes:\n        - to: default\n          via: ">> \o gw
  \o <<"\n      nameservers:\n        addresses:\n">>
  \o Join([i \in 1..Len(dns_list) |-> <<"          - ">> \o dns_list[i]], L(NL))
  \o (IF search_domain # <<>>
      THEN <<"\n        search:\n          - ">> \o search_domain ELSE <<>>)
  \o <<NL>>

NetplanCmds ==
  << Cmd(<<L("netplan"), L("generate")>>, TRUE),
     Cmd(<<L("netplan"), L("apply")>>, TRUE) >>

NpBackup ==
  /\ pc = "np_backup"
  /\ BackupStep(NetplanTarget, "np_write")
  /\ UNCHANGED <<step, backend, nmQuery, nmVars, lastIn, lastErr, cfgVars, fileFrame>>

NpWrite ==
  /\ pc = "np_write"
  /\ WriteStep(target, NetplanContent, pc' = "np_cmds" /\ Running)
  /\ UNCHANGED <<step, target, backend, nmQuery, nmVars, lastIn, lastErr, cfgVars, fileFrame>>

NpRun ==
  /\ pc = "np_cmds"
  /\ RunStep(NetplanCmds, Succeed /\ UNCHANGED target)
  /\ UNCHANGED <<backend, nmQuery, nmVars, lastIn, lastErr, cfgVars, hostVars>>

(***************************************************************************)
(* apply_networkd (testcode.py 185-207).                                   *)
(***************************************************************************)
NetworkdContent ==
  Join(<< L("[Match]"), <<"Name=">> \o iface, <<>>, L("[Network]"),
          <<"Address=">> \o normalize_ip_prefix(ip, prefix),
          <<"Gateway=">> \o gw,
          <<"DNS=">> \o Join(dns_list, L(" ")) >>
       \o (IF search_domain # <<>> THEN << <<"Domains=">> \o search_domain >> ELSE <<>>),
       L(NL)) \o <<NL>>

NetworkdCmds ==
  << Cmd(<<L("systemctl"), L("enable"), L("--now"), L("systemd-networkd")>>, FALSE),
     Cmd(<<L("systemctl"), L("restart"), L("systemd-networkd")>>, FALSE) >>

\* netdir.mkdir(parents=True, exist_ok=True)
NdMkdir ==
  /\ pc = "nd_mkdir"
  /\ \E o \in FileOutcomes :
       /\ calls' = Append(calls, Call("mkdir", <<L("/etc/systemd/network")>>, TRUE, o))
       /\ IF run(TRUE, o) = "none" THEN pc' = "nd_backup" /\ Running ELSE Raise("OSError", 0)
  /\ UNCHANGED <<step, target, backend, nmQuery, nmVars, lastIn, lastErr, cfgVars, hostVars>>

NdBackup ==
  /\ pc = "nd_backup"
  /\ BackupStep(NetworkdFile(iface), "nd_write")
  /\ UNCHANGED <<step, backend, nmQuery, nmVars, lastIn, lastErr, cfgVars, fileFrame>>

NdWrite ==
  /\ pc = "nd_write"
  /\ WriteStep(target, NetworkdContent, pc' = "nd_cmds" /\ Running)
  /\ UNCHANGED <<step, target, backend, nmQuery, nmVars, lastIn, lastErr, cfgVars, fileFrame>>

NdRun ==
  /\ pc = "nd_cmds"
  /\ RunStep(NetworkdCmds, Succeed /\ UNCHANGED target)
  /\ UNCHANGED <<backend, nmQuery, nmVars, lastIn, lastErr, cfgVars, hostVars>>

(***************************************************************************)
(* apply_iproute2_temp (testcode.py 240-254).                              *)
(***************************************************************************)
Iproute2Cmds ==
  << Cmd(<<L("ip"), L("addr"), L("flush"), L("dev"), iface>>, FALSE),
     Cmd(<<L("ip"), L("addr"), L("add"), normalize_ip_prefix(ip, prefix), L("dev"), iface>>, TRUE),
     Cmd(<<L("ip"), L("link"), L("set"), iface, L("up")>>, TRUE),
     Cmd(<<L("ip"), L("route"), L("replace"), L("default"), L("via"), gw, L("dev"), iface>>, TRUE) >>

\* the test of line 247 without is_symlink()
ResolvWritable_any == Exists(P_resolv)

\* resolv.exists() and not resolv.is_symlink()
ResolvWritable == Exists(P_resolv) /\ ~resolvLink

ResolvContent ==
  Join((IF search_domain # <<>> THEN << <<"search ">> \o search_domain >> ELSE <<>>)
       \o [i \in 1..Len(dns_list) |-> <<"nameserver ">> \o dns_list[i]],
       L(NL)) \o <<NL>>

IpRun ==
  /\ pc = "ip_cmds"
  /\ RunStep(Iproute2Cmds,
             IF ResolvWritable
             THEN pc' = "ip_backup" /\ Running /\ UNCHANGED target
             ELSE Succeed /\ UNCHANGED target)
  /\ UNCHANGED <<backend, nmQuery, nmVars, lastIn, lastErr, cfgVars, hostVars>>

IpBackup ==
  /\ pc = "ip_backup"
  /\ BackupStep(P_resolv, "ip_write")
  /\ UNCHANGED <<step, backend, nmQuery, nmVars, lastIn, lastErr, cfgVars, fileFrame>>

IpWrite ==
  /\ pc = "ip_write"
  /\ WriteStep(target, ResolvContent, Succeed)
  /\ UNCHANGED <<step, target, backend, nmQuery, nmVars, lastIn, lastErr, cfgVars, fileFrame>>

(***************************************************************************)
(* The host before a run, and the specifications.                          *)
(***************************************************************************)
Tools == {"netplan", "nmcli", "networkctl"}

\* the files of a host: netplan YAML files only inside an existing /etc/netplan
HostFiles(dir, ymls, unit, resolv) ==
  (IF dir THEN ymls ELSE {})
    \cup (IF unit THEN {NetworkdFile(Eth0)} ELSE {})
    \cup (IF resolv THEN {P_resolv} ELSE {})

RunLocalInit ==
  /\ pc = "start"
  /\ step = 1
  /\ lastIn = <<>>
  /\ lastErr = <<>>
  /\ detected_iface = <<>>
  /\ iface = <<>>
  /\ ip = <<>>
  /\ prefix = 0
  /\ gw = <<>>
  /\ dns_list = <<>>
  /\ search_domain = <<>>
  /\ backend = "unset"
  /\ nmQuery = NotRun
  /\ activeOut = <<>>
  /\ allOut = <<>>
  /\ con_name = <<>>
  /\ created = FALSE
  /\ target = <<>>
  /\ calls = <<>>
  /\ printedOk = FALSE
  /\ exitCode = -1

\* every layout of the files the program looks at
AllLayouts ==
  { [dir |-> d, ymls |-> y, unit |-> u, resolv |-> r, link |-> l] :
      d \in BOOLEAN, y \in SUBSET {P_yml, P_yaml}, u \in BOOLEAN, r \in BOOLEAN,
      l \in BOOLEAN }

\* the layouts a run of the whole script is checked with
FewLayouts ==
  { [dir |-> FALSE, ymls |-> {}, unit |-> FALSE, resolv |-> FALSE, link |-> FALSE],
    [dir |-> TRUE, ymls |-> {}, unit |-> FALSE, resolv |-> TRUE, link |-> FALSE],
    [dir |-> TRUE, ymls |-> {P_yml, P_yaml}, unit |-> FALSE, resolv |-> TRUE, link |-> TRUE],
    [dir |-> TRUE, ymls |-> {P_yaml}, unit |-> TRUE, resolv |-> TRUE, link |-> FALSE],
    [dir |-> FALSE, ymls |-> {}, unit |-> TRUE, resolv |-> TRUE, link |-> TRUE],
    [dir |-> FALSE, ymls |-> {}, unit |-> TRUE, resolv |-> FALSE, link |-> TRUE] }

HostInit(ToolSets, Layouts) ==
  /\ bins \in ToolSets
  /\ systemdRun \in BOOLEAN
  /\ \E h \in Layouts :
       /\ netplanDir = h.dir
       /\ resolvLink = h.link
       /\ files = [p \in HostFiles(h.dir, h.ymls, h.unit, h.resolv) |-> OldContent(p)]
  /\ files0 = files
  /\ clock = 0
  /\ runs = 1

Init == RunLocalInit /\ HostInit(SUBSET Tools, FewLayouts)

\* the two listings a run of the whole script is checked with
FewListings ==
  { <<>>,
    <<"A", ":">> \o Eth0 \o <<NL>> }

MainNext ==
  \/ RequireRoot
  \/ PromptIface
  \/ PromptIp
  \/ PromptPrefix
  \/ PromptGw
  \/ PromptDns
  \/ PromptSearch
  \/ InputEof
  \/ DetectStack
  \/ Dispatch

FileStrategiesNext ==
  \/ NpBackup
  \/ NpWrite
  \/ NpRun
  \/ NdMkdir
  \/ NdBackup
  \/ NdWrite
  \/ NdRun
  \/ IpRun
  \/ IpBackup
  \/ IpWrite

Next ==
  \/ MainNext
  \/ NmShowActive(FewListings)
  \/ NmShowAll(FewListings)
  \/ NmRun
  \/ FileStrategiesNext

Spec == Init /\ [][Next]_vars

(***************************************************************************)
(* Detection alone, over every host of the model: main is about to call    *)
(* detect_stack with a validated configuration.                            *)
(***************************************************************************)
Configured ==
  /\ step = 1
  /\ lastErr = <<>>
  /\ detected_iface = Eth0
  /\ iface = Eth0
  /\ ip = Ip_10_0_0_5
  /\ prefix = 24
  /\ gw = Ip_10_0_0_1
  /\ dns_list \in {<<Ip_8_8_8_8>>, <<Ip_8_8_8_8, Ip_1_1_1_1>>}
  /\ search_domain \in {<<>>, <<"l", "a", "n">>}
  /\ lastIn = search_domain
  /\ activeOut = <<>>
  /\ allOut = <<>>
  /\ con_name = <<>>
  /\ created = FALSE
  /\ target = <<>>
  /\ calls = <<>>
  /\ printedOk = FALSE
  /\ exitCode = -1

InitDetect ==
  /\ pc = "detect"
  /\ backend = "unset"
  /\ nmQuery = NotRun
  /\ Configured
  /\ dns_list = <<Ip_8_8_8_8>>
  /\ search_domain = <<>>
  /\ HostInit(SUBSET Tools, AllLayouts)

NextDetect == DetectStack

SpecDetect == InitDetect /\ [][NextDetect]_vars

(***************************************************************************)
(* apply_nmcli alone, over every listing of the model: main has just       *)
(* dispatched to it.                                                       *)
(***************************************************************************)
ProfileA == <<"A">>
ProfileB == <<"B">>

\* lines of "nmcli -t -f NAME,DEVICE connection show": NAME:DEVICE, the device empty
\* for a profile that is not active
ListingLines ==
  { ProfileA \o <<":">> \o Eth0,
    ProfileB \o <<":">> \o Eth0,
    ProfileA \o <<":">> \o Wlan0,
    ProfileB \o <<":">> }

ListingsOf(n) ==
  UNION {[1..k -> ListingLines] : k \in 0..n}

\* stdout for a sequence of lines
Stdout(lines) == IF lines = <<>> THEN <<>> ELSE Join(lines, L(NL)) \o <<NL>>

AllListings == {Stdout(ls) : ls \in ListingsOf(MaxListing)}

InitNm ==
  /\ pc = "nm_active"
  /\ backend = "nmcli"
  /\ nmQuery = NotRun
  /\ Configured
  /\ dns_list = <<Ip_8_8_8_8, Ip_1_1_1_1>>
  /\ HostInit({{"nmcli"}}, {[dir |-> FALSE, ymls |-> {}, unit |-> FALSE, resolv |-> FALSE,
                             link |-> FALSE]})

NextNm ==
  \/ NmShowActive(AllListings)
  \/ NmShowAll(AllListings)
  \/ NmRun

SpecNm == InitNm /\ [][NextNm]_vars

(***************************************************************************)
(* Successive runs of the script on one host while the clock advances.     *)
(***************************************************************************)
\* the script is started again after the previous run has ended
NewRun ==
  /\ pc = "exit"
  /\ runs < MaxRuns
  /\ runs' = runs + 1
  /\ files0' = files
  /\ pc' = "start"
  /\ step' = 1
  /\ lastIn' = <<>>
  /\ lastErr' = <<>>
  /\ detected_iface' = <<>>
  /\ iface' = <<>>
  /\ ip' = <<>>
  /\ prefix' = 0
  /\ gw' = <<>>
  /\ dns_list' = <<>>
  /\ search_domain' = <<>>
  /\ backend' = "unset"
  /\ nmQuery' = NotRun
  /\ activeOut' = <<>>
  /\ allOut' = <<>>
  /\ con_name' = <<>>
  /\ created' = FALSE
  /\ target' = <<>>
  /\ calls' = <<>>
  /\ printedOk' = FALSE
  /\ exitCode' = -1
  /\ UNCHANGED <<bins, netplanDir, systemdRun, resolvLink, files, clock>>

\* time passes
Tick ==
  /\ clock < MaxClock
  /\ clock' = clock + 1
  /\ UNCHANGED <<pc, step, lastIn, lastErr, cfgVars, backend, nmQuery, nmVars, target, calls>>
  /\ UNCHANGED <<bins, netplanDir, systemdRun, resolvLink, files, files0, runs>>
  /\ UNCHANGED <<printedOk, exitCode>>

InitRuns ==
  /\ RunLocalInit
  /\ systemdRun = TRUE
  /\ HostInit({{"networkctl"}, {"netplan"}, {}},
              {[dir |-> TRUE, ymls |-> {P_yaml}, unit |-> TRUE, resolv |-> TRUE,
                link |-> FALSE]})

NextRuns ==
  \/ MainNext
  \/ FileStrategiesNext
  \/ NewRun
  \/ Tick

SpecRuns == InitRuns /\ [][NextRuns]_vars

(***************************************************************************)
(* Vocabulary of the claims.                                               *)
(***************************************************************************)
Detected == backend # "unset"

\* /etc/netplan exists and holds a *.yaml or *.yml file
NetplanFilesPresent ==
  /\ netplanDir
  /\ \E p \in DOMAIN files : p[1] = "/etc/netplan/" /\ p[Len(p)] \in {".yaml", ".yml"}

\* the query ran and did not succeed
QueryFailed == ~nmQuery.launched \/ nmQuery.rc # 0

\* the text holds the word running, in any case
SaysRunning(out) ==
  \E i \in 1..Len(out) :
    /\ i + 6 <= Len(out)
    /\ \A k \in 1..7 : LowerChar(out[i + k - 1]) = S_running[k]

StrategyPcs ==
  {"dispatch", "nm_active", "nm_all", "nm_cmds", "np_backup", "np_write", "np_cmds",
   "nd_mkdir", "nd_backup", "nd_write", "nd_cmds", "ip_cmds", "ip_backup", "ip_write"}

WritePcs == {"np_write", "nd_write", "ip_write"}

ValidIp(s) == v_ipv4(s).ok

InputsValid ==
  /\ ValidIp(ip)
  /\ prefix \in 1..32
  /\ ValidIp(gw)
  /\ dns_list # <<>>
  /\ \A i \in 1..Len(dns_list) : ValidIp(dns_list[i])

NothingDone == backend = "unset" /\ calls = <<>> /\ files = files0

IsBackup(b) == \E i \in 1..Len(b) : b[i] = ".bak."

CallsOf(op, p) == {j \in 1..Len(calls) : calls[j].op = op /\ calls[j].arg = <<p>>}

Failed(j) == calls[j].rc # 0 \/ calls[j].exc # "none"

RestartArgv == <<L("systemctl"), L("restart"), L("systemd-networkd")>>
DownArgv == <<L("nmcli"), L("connection"), L("down"), con_name>>
UpArgv == <<L("nmcli"), L("connection"), L("up"), con_name>>
FlushArgv == <<L("ip"), L("addr"), L("flush"), L("dev"), iface>>

(***************************************************************************)
(* C1.  As claimed: whenever /etc/netplan exists and holds a YAML file,    *)
(* detect_stack returns netplan, whatever tools are installed (the netplan *)
(* binary included) and whatever NetworkManager's state.                   *)
(***************************************************************************)
C1_AsClaimed == (Detected /\ NetplanFilesPresent) => backend = "netplan"

\* C1, amended: when the netplan binary is on PATH and /etc/netplan exists and holds
\* a YAML file, detect_stack returns netplan, whatever the other tools (nmcli,
\* networkctl, the systemd runtime directory) and NetworkManager's state.
C1_NetplanFirst ==
  (Detected /\ "netplan" \in bins /\ NetplanFilesPresent) => backend = "netplan"

C1_Witness ==
  /\ backend = "netplan"
  /\ {"nmcli", "networkctl"} \subseteq bins
  /\ systemdRun

(***************************************************************************)
(* C2.  When the netplan rule does not match, detect_stack returns the     *)
(* first match of: NetworkManager if nmcli is present and its query either *)
(* says "running" (any case, as a substring) or fails; systemd-networkd if *)
(* the systemd runtime directory exists and networkctl is present; else    *)
(* iproute2.  It is never anything else, and it is not NetworkManager when *)
(* the query succeeds without saying "running".                            *)
(***************************************************************************)
C2_FirstMatch ==
  (Detected /\ ~("netplan" \in bins /\ NetplanFilesPresent)) =>
    /\ backend \in {"nmcli", "networkd", "iproute2"}
    /\ backend = "nmcli" <=>
         ("nmcli" \in bins /\ (QueryFailed \/ SaysRunning(nmQuery.out)))
    /\ backend = "networkd" <=>
         (backend # "nmcli" /\ systemdRun /\ "networkctl" \in bins)
    /\ ("nmcli" \in bins /\ ~QueryFailed /\ ~SaysRunning(nmQuery.out)) => backend # "nmcli"

C2_Witness ==
  /\ backend = "nmcli"
  /\ "nmcli" \in bins
  /\ ~nmQuery.launched
  /\ systemdRun
  /\ "networkctl" \in bins

(***************************************************************************)
(* C3.  detect_stack and the strategies run only after the address, the    *)
(* prefix, the gateway and the DNS list have passed their validators:      *)
(* while main is still prompting, or the last answer was rejected, nothing *)
(* has been detected, called or changed.                                   *)
(***************************************************************************)
C3_ValidatedFirst ==
  /\ (Detected \/ calls # <<>> \/ pc \in StrategyPcs \/ files # files0) => InputsValid
  /\ (pc \in PromptPcs \cup {"start", "detect"}) => NothingDone
  /\ lastErr # <<>> => (NothingDone /\ pc \in PromptPcs \cup {"exit"})
  /\ (pc = "exit" /\ ~InputsValid) => NothingDone

C3_Witness ==
  /\ pc = "p_gw"
  /\ lastIn = Ip_999_1_1_1
  /\ lastErr = <<"  - Invalid value: ", "IPv4 octet out of range (0-255)">>
  /\ NothingDone

(***************************************************************************)
(* C4.  A strategy overwrites a file only after backup_file was called on  *)
(* that path, exactly once; a failed backup copy means the file is never   *)
(* written; and when the file existed, a backup with its old content       *)
(* exists when the write is performed (and afterwards).                    *)
(***************************************************************************)
C4_BackupBeforeWrite ==
  /\ \A j \in 1..Len(calls) :
       calls[j].op = "write_text" =>
         LET p == calls[j].arg[1]
         IN  /\ Cardinality(CallsOf("backup_file", p)) = 1
             /\ \A i \in CallsOf("backup_file", p) : i < j /\ calls[i].exc = "none"
  /\ \A i \in 1..Len(calls) :
       (calls[i].op = "backup_file" /\ calls[i].exc # "none") =>
         /\ CallsOf("write_text", calls[i].arg[1]) = {}
         /\ files = files0
  /\ \A p \in DOMAIN files :
       (~IsBackup(p) /\ (p \notin DOMAIN files0 \/ files[p] # files0[p])) =>
         CallsOf("write_text", p) # {}
  /\ \A p \in DOMAIN files0 :
       ((pc \in WritePcs /\ target = p) \/ CallsOf("write_text", p) # {}) =>
         \E b \in DOMAIN files : IsBackupOf(b, p) /\ files[b] = files0[p]
  /\ pc \in WritePcs => (target \in DOMAIN files0 => files[target] = files0[target])

C4_Witness ==
  /\ pc = "nd_cmds"
  /\ target \in DOMAIN files0
  /\ files[target] = NetworkdContent
  /\ files[BkpPath(target, ts)] = files0[target]

(***************************************************************************)
(* C5.  In the systemd-networkd strategy a non-zero exit of the restart of *)
(* systemd-networkd is fatal: no success message, non-zero exit status.    *)
(***************************************************************************)
C5_RestartFatal ==
  \A j \in 1..Len(calls) :
    (calls[j].arg = RestartArgv /\ calls[j].rc # 0) =>
      (pc = "exit" /\ ~printedOk /\ exitCode # 0)

(***************************************************************************)
(* C6.  The iproute2 strategy leaves /etc/resolv.conf alone, with no       *)
(* backup, when it is a symbolic link or does not exist; only a regular    *)
(* file is backed up and then overwritten with the optional search line    *)
(* and one nameserver line per DNS server, in order.                       *)
(***************************************************************************)
RECURSIVE NameserverLines(_)
NameserverLines(servers) ==
  IF servers = <<>> THEN <<>>
  ELSE <<"nameserver ">> \o servers[1] \o <<NL>> \o NameserverLines(Tail(servers))

ExpectedResolv ==
  (IF search_domain = <<>> THEN <<>> ELSE <<"search ">> \o search_domain \o <<NL>>)
    \o NameserverLines(dns_list)

ResolvRegular0 == P_resolv \in DOMAIN files0 /\ ~resolvLink

ResolvUntouched ==
  /\ (P_resolv \in DOMAIN files) = (P_resolv \in DOMAIN files0)
  /\ P_resolv \in DOMAIN files => files[P_resolv] = files0[P_resolv]

C6_ResolvOnlyIfRegular ==
  backend = "iproute2" =>
    /\ ~ResolvRegular0 =>
         /\ ResolvUntouched
         /\ \A b \in DOMAIN files : ~IsBackupOf(b, P_resolv)
         /\ CallsOf("backup_file", P_resolv) = {} /\ CallsOf("write_text", P_resolv) = {}
    /\ (\E j \in CallsOf("write_text", P_resolv) : calls[j].exc = "none") =>
         /\ ResolvRegular0
         /\ files[P_resolv] = ExpectedResolv
         /\ \E b \in DOMAIN files : IsBackupOf(b, P_resolv) /\ files[b] = files0[P_resolv]
    /\ ~ResolvUntouched => CallsOf("write_text", P_resolv) # {}

C6_Witness ==
  /\ backend = "iproute2"
  /\ pc = "exit"
  /\ printedOk
  /\ resolvLink
  /\ P_resolv \in DOMAIN files

(***************************************************************************)
(* C7.  When a strategy fails the run ends non-zero without the success    *)
(* message: a failed non-tolerated command gives its code as exit status,  *)
(* a failed file operation a generic non-zero status; success is reported  *)
(* only when every non-tolerated step succeeded.  The tolerated steps are  *)
(* nmcli connection down, ip addr flush and the enable-and-start of        *)
(* systemd-networkd; its restart is not tolerated (C5).                    *)
(***************************************************************************)
Tolerated(j) ==
  calls[j].op = "run" /\ calls[j].check = FALSE /\ calls[j].arg # RestartArgv

C7_FailureIsReported ==
  pc = "exit" =>
    /\ \A j \in 1..Len(calls) :
         (~Tolerated(j) /\ Failed(j)) =>
           /\ ~printedOk
           /\ exitCode # 0
           /\ calls[j].op = "run" => exitCode = calls[j].rc % 256
    /\ (printedOk \/ exitCode = 0) =>
         \A j \in 1..Len(calls) : ~Tolerated(j) => ~Failed(j)

(***************************************************************************)
(* C8.  backup_file never overwrites an existing backup: over successive   *)
(* calls on one path, also from runs within the same clock second, every   *)
(* backup made earlier keeps its content.                                  *)
(***************************************************************************)
C8_BackupsKept ==
  [][\A b \in DOMAIN files : IsBackup(b) => (b \in DOMAIN files' /\ files'[b] = files[b])]_vars

(***************************************************************************)
(* C9.  The first non-tolerated command to fail is the last thing its      *)
(* strategy does: nothing is issued after it and the run ends without the  *)
(* success message.  A failing tolerated command (nmcli connection down,   *)
(* ip addr flush) is followed by the next command.  Nothing written is     *)
(* rolled back: a file written before the failure keeps its new content.   *)
(***************************************************************************)
Written(p) == \E j \in CallsOf("write_text", p) : calls[j].exc = "none"

OnIface(line) ==
  /\ Len(line) > Len(iface)
  /\ SubSeq(line, Len(line) - Len(iface) + 1, Len(line)) = iface
  /\ line[Len(line) - Len(iface)] = ":"
  /\ \A k \in 1..(Len(line) - Len(iface) - 1) : line[k] # ":"

ProfileOf(line) == SubSeq(line, 1, Len(line) - Len(iface) - 1)

TextLines(out) == Split(out, NL)

HasMatch(out) == \E i \in 1..Len(TextLines(out)) : OnIface(TextLines(out)[i])

FirstMatch(out) ==
  LET ls == TextLines(out)
      i == CHOOSE k \in 1..Len(ls) : OnIface(ls[k]) /\ \A m \in 1..(k - 1) : ~OnIface(ls[m])
  IN  ProfileOf(ls[i])

\* what follows the listings, as (position of the profile name, the other words)
ExpectedTail ==
  << <<"modify", L("ipv4.method"), L("manual")>>,
     <<"modify", L("ipv4.addresses"), ip \o <<"/">> \o ToStr(prefix)>>,
     <<"modify", L("ipv4.gateway"), gw>>,
     <<"modify", L("ipv4.dns"),
       IF Len(dns_list) = 1 THEN dns_list[1] ELSE dns_list[1] \o <<",">> \o dns_list[2]>>,
     <<"modify", L("ipv4.dns-search"), search_domain>>,
     <<"modify", L("connection.autoconnect"), L("yes")>>,
     <<"down">>,
     <<"up">> >>

MatchesExpected(c, e) ==
  /\ c.arg[1] = L("nmcli") /\ c.arg[2] = L("connection") /\ c.arg[3] = L(e[1])
  /\ c.arg[4] = con_name
  /\ c.check = (e[1] # "down")
  /\ e[1] = "modify" => (Len(c.arg) = 6 /\ c.arg[5] = e[2] /\ c.arg[6] = e[3])
  /\ e[1] # "modify" => Len(c.arg) = 4

IsAdd(c) == Len(c.arg) > 3 /\ c.arg[3] = L("add")

\* the calls after the listing(s) and the optional add
TailCalls ==
  LET lead == (IF HasMatch(activeOut) THEN 1 ELSE 2) + (IF created THEN 1 ELSE 0)
  IN  SubSeq(calls, lead + 1, Len(calls))

\* both listings that were needed have been read
Resolved ==
  /\ calls # <<>>
  /\ calls[1].exc = "none"
  /\ HasMatch(activeOut) \/ (Len(calls) > 1 /\ calls[2].exc = "none")

====
